---- MODULE Spec2Model ----
(***************************************************************************)
(* Model of .prettierrc.mjs: one object literal, bound to `config` when    *)
(* the module is evaluated, and exported as the module's default export.   *)
(* The state is the JavaScript object store holding that object, each      *)
(* importer's binding to the default export, and what importers have done  *)
(* with it.  The object is an ordinary (non-frozen) object, so an importer *)
(* can read, assign and delete its properties and push onto `plugins`.     *)
(***************************************************************************)
EXTENDS Integers, Sequences, FiniteSets, TLC

\* Number of importers of the module.
NumConsumers == 2

\* Number of write operations (assignment, delete, push) importers perform.
MaxWrites == 1

Consumers == 1..NumConsumers

\* Process environments an importer may run under; the module reads none.
Envs == {"", "CI"}

\* Plugin identifiers an importer may push onto `plugins`.
PluginIds == {"prettier-plugin-tailwindcss", "prettier-plugin-packagejson"}

---------------------------------------------------------------------------
(* JavaScript values.  Every value has the same record shape so that any   *)
(* two values can be compared.                                             *)

Bool(b) == [t |-> "boolean", n |-> IF b THEN 1 ELSE 0, s |-> "", a |-> <<>>]
Num(n) == [t |-> "number", n |-> n, s |-> "", a |-> <<>>]
Str(s) == [t |-> "string", n |-> 0, s |-> s, a |-> <<>>]
Arr(a) == [t |-> "array", n |-> 0, s |-> "", a |-> a]
\* The object has no own property of that name.
Absent == [t |-> "absent", n |-> 0, s |-> "", a |-> <<>>]

\* The property names of the literal, in source order.
LiteralKeys ==
    << "semi", "singleQuote", "trailingComma", "tabWidth", "printWidth",
       "arrowParens", "endOfLine", "plugins" >>

\* A property name the literal does not define, which an importer may add.
ExtraKey == "overrides"

KeyOrder == Append(LiteralKeys, ExtraKey)

Keys == {KeyOrder[i] : i \in 1..Len(KeyOrder)}

EmptyProps == [k \in Keys |-> Absent]

---------------------------------------------------------------------------
(* The object literal as source text, and its evaluation.                  *)

KeywordTok(text) == [kind |-> "keyword", text |-> text, digits |-> <<>>, elems |-> <<>>]
NumeralTok(digits) == [kind |-> "numeral", text |-> "", digits |-> digits, elems |-> <<>>]
StringTok(text) == [kind |-> "string", text |-> text, digits |-> <<>>, elems |-> <<>>]
ArrayTok(elems) == [kind |-> "array", text |-> "", digits |-> <<>>, elems |-> elems]

\* A variant literal whose tabWidth is 4.
SourceLiteral_tab4 ==
    << [key |-> "semi", tok |-> KeywordTok("true")],
       [key |-> "singleQuote", tok |-> KeywordTok("false")],
       [key |-> "trailingComma", tok |-> StringTok("es5")],
       [key |-> "tabWidth", tok |-> NumeralTok(<<4>>)],
       [key |-> "printWidth", tok |-> NumeralTok(<<1, 0, 0>>)],
       [key |-> "arrowParens", tok |-> StringTok("always")],
       [key |-> "endOfLine", tok |-> StringTok("lf")],
       [key |-> "plugins", tok |-> ArrayTok(<<>>)] >>

\* Lines 3-10 of the literal: property name and the token after the colon.
SourceLiteral ==
    << [key |-> "semi", tok |-> KeywordTok("true")],
       [key |-> "singleQuote", tok |-> KeywordTok("false")],
       [key |-> "trailingComma", tok |-> StringTok("es5")],
       [key |-> "tabWidth", tok |-> NumeralTok(<<2>>)],
       [key |-> "printWidth", tok |-> NumeralTok(<<1, 0, 0>>)],
       [key |-> "arrowParens", tok |-> StringTok("always")],
       [key |-> "endOfLine", tok |-> StringTok("lf")],
       [key |-> "plugins", tok |-> ArrayTok(<<>>)] >>

RECURSIVE DigitsToNat(_, _)
\* The value of a numeral's digits in the given radix, most significant first.
DigitsToNat(digits, radix) ==
    IF digits = <<>> THEN 0
    ELSE DigitsToNat(SubSeq(digits, 1, Len(digits) - 1), radix) * radix
         + digits[Len(digits)]

\* Evaluation that reads a numeral in radix 8.
EvalToken_octal(tok) ==
    CASE tok.kind = "keyword" -> Bool(tok.text = "true")
      [] tok.kind = "numeral" -> Num(DigitsToNat(tok.digits, 8))
      [] tok.kind = "string" -> Str(tok.text)
      [] OTHER -> Arr(tok.elems)

\* The value a literal token evaluates to.
EvalToken(tok) ==
    CASE tok.kind = "keyword" -> Bool(tok.text = "true")
      [] tok.kind = "numeral" -> Num(DigitsToNat(tok.digits, 10))
      [] tok.kind = "string" -> Str(tok.text)
      [] OTHER -> Arr(tok.elems)

RECURSIVE EvalEntries(_, _)
EvalEntries(entries, props) ==
    IF entries = <<>> THEN props
    ELSE EvalEntries(Tail(entries),
                     [props EXCEPT ![Head(entries).key] = EvalToken(Head(entries).tok)])

\* The properties of the object an object literal evaluates to.
EvalLiteral(entries) == EvalEntries(entries, EmptyProps)

\* The properties of `config` when the module has been evaluated.
Literal == EvalLiteral(SourceLiteral)

---------------------------------------------------------------------------
(* Writing a value back as literal text (the inverse direction of the      *)
(* evaluation above).                                                      *)

RECURSIVE NatToDigits(_)
\* The decimal digits of a natural number, most significant first.
NatToDigits(n) ==
    IF n < 10 THEN <<n>> ELSE Append(NatToDigits(n \div 10), n % 10)

\* The literal token that denotes a value.
ToToken(v) ==
    CASE v.t = "boolean" -> KeywordTok(IF v.n = 1 THEN "true" ELSE "false")
      [] v.t = "number" -> NumeralTok(NatToDigits(v.n))
      [] v.t = "string" -> StringTok(v.s)
      [] OTHER -> ArrayTok(v.a)

RECURSIVE ToEntries(_, _)
ToEntries(props, keys) ==
    IF keys = <<>> THEN <<>>
    ELSE IF props[Head(keys)] = Absent THEN ToEntries(props, Tail(keys))
    ELSE <<[key |-> Head(keys), tok |-> ToToken(props[Head(keys)])]>>
         \o ToEntries(props, Tail(keys))

\* The object literal that denotes an object: one entry per own property.
ToLiteral(props) == ToEntries(props, KeyOrder)

---------------------------------------------------------------------------
(* The object store and the importers.                                     *)

VARIABLES
    heap,     \* object store: address -> [live, props]
    ref,      \* each importer's binding to the default export, or NoRef
    obs,      \* each importer's last reading of the object: [has, props]
    writes,   \* number of write operations importers have performed
    lastOp    \* the operation performed last: [op, outcome, env, key]

vars == <<heap, ref, obs, writes, lastOp>>

\* The address of the object bound to `config`.
ConfigAddr == 0

\* Addresses of the store: `config`, and room for one more object per importer.
Addrs == ConfigAddr..NumConsumers

\* An importer that has not imported the module holds no reference.
NoRef == ConfigAddr - 1

NoObject == [live |-> FALSE, props |-> EmptyProps]

NotRead == [has |-> FALSE, props |-> EmptyProps]

\* Values an importer may assign to a property.
SetValues == {Num(0), Str("crlf")}

Op(op, outcome, env, key) == [op |-> op, outcome |-> outcome, env |-> env, key |-> key]

\* Module evaluation: `const config = {...}` allocates the one object.
Init ==
    /\ heap = [a \in Addrs |->
                 IF a = ConfigAddr THEN [live |-> TRUE, props |-> Literal]
                 ELSE NoObject]
    /\ ref = [c \in Consumers |-> NoRef]
    /\ obs = [c \in Consumers |-> NotRead]
    /\ writes = 0
    /\ lastOp = Op("evaluate", "ok", "", "")

\* A loader that hands each importer a copy of the object of its own.
LoadStep_copy(h, c, env) ==
    [heap |-> [h EXCEPT ![c] = h[ConfigAddr]], ref |-> c, outcome |-> "ok"]

\* A loader that applies an override to the object when run under CI.
LoadStep_env(h, c, env) ==
    [heap |-> IF env = "CI"
              THEN [h EXCEPT ![ConfigAddr].props.printWidth = Num(80)]
              ELSE h,
     ref |-> ConfigAddr, outcome |-> "ok"]

\* A loader that validates the object and throws when printWidth is set.
LoadStep_validate(h, c, env) ==
    [heap |-> h, ref |-> ConfigAddr,
     outcome |-> IF h[ConfigAddr].props.printWidth = Literal.printWidth
                 THEN "ok" ELSE "throw"]

\* A loader that hands out the object only while it is as the literal made
\* it, and asks the caller to retry otherwise.
LoadStep_retry(h, c, env) ==
    [heap |-> h, ref |-> ConfigAddr,
     outcome |-> IF h[ConfigAddr].props = Literal THEN "ok" ELSE "retry"]

\* `export default config` / `import config from ...`: the importer's binding
\* is the object `config` names; no argument or environment is consulted,
\* nothing is allocated or written, nothing is thrown.
LoadStep(h, c, env) ==
    [heap |-> h, ref |-> ConfigAddr, outcome |-> "ok"]

Load(c, env) ==
    LET r == LoadStep(heap, c, env) IN
    /\ heap' = r.heap
    /\ ref' = IF r.outcome = "ok" THEN [ref EXCEPT ![c] = r.ref] ELSE ref
    /\ lastOp' = Op("load", r.outcome, env, "")
    /\ UNCHANGED <<obs, writes>>

\* The importer reads every property of the object it holds (one
\* run-to-completion job, so the reading is of one state of the object).
Read(c) ==
    /\ ref[c] # NoRef
    /\ obs' = [obs EXCEPT ![c] = [has |-> TRUE, props |-> heap[ref[c]].props]]
    /\ lastOp' = Op("read", "ok", "", "")
    /\ UNCHANGED <<heap, ref, writes>>

\* An assignment to a frozen object: nothing is written.
PutValue_frozen(props, k, v) == props

\* config[k] = v on an ordinary object: the property is created or replaced.
PutValue(props, k, v) == [props EXCEPT ![k] = v]

SetField(c, k, v) ==
    /\ ref[c] # NoRef
    /\ writes < MaxWrites
    /\ heap' = [heap EXCEPT ![ref[c]].props = PutValue(@, k, v)]
    /\ writes' = writes + 1
    /\ lastOp' = Op("set", "ok", "", k)
    /\ UNCHANGED <<ref, obs>>

\* A delete that empties the object.
DeleteValue_clear(props, k) == EmptyProps

\* delete config[k]: the own property, if any, is removed.
DeleteValue(props, k) == [props EXCEPT ![k] = Absent]

DeleteField(c, k) ==
    /\ ref[c] # NoRef
    /\ writes < MaxWrites
    /\ heap' = [heap EXCEPT ![ref[c]].props = DeleteValue(@, k)]
    /\ writes' = writes + 1
    /\ lastOp' = Op("delete", "ok", "", k)
    /\ UNCHANGED <<ref, obs>>

\* A push that rebuilds the object around the new plugins array.
ArrayPush_rebuild(props, id) ==
    [EmptyProps EXCEPT !.plugins = Arr(Append(props.plugins.a, id))]

\* config.plugins.push(id) on an array: the element is added at the end.
ArrayPush(props, id) ==
    [props EXCEPT !.plugins = Arr(Append(@.a, id))]

\* config.plugins.push(id); a TypeError when `plugins` is not an array.
PushPlugin(c, id) ==
    /\ ref[c] # NoRef
    /\ writes < MaxWrites
    /\ writes' = writes + 1
    /\ IF heap[ref[c]].props.plugins.t = "array"
       THEN /\ heap' = [heap EXCEPT ![ref[c]].props = ArrayPush(@, id)]
            /\ lastOp' = Op("push", "ok", "", "plugins")
       ELSE /\ heap' = heap
            /\ lastOp' = Op("push", "throw", "", "plugins")
    /\ UNCHANGED <<ref, obs>>

Next ==
    \/ \E c \in Consumers, env \in Envs : Load(c, env)
    \/ \E c \in Consumers : Read(c)
    \/ \E c \in Consumers, k \in Keys, v \in SetValues : SetField(c, k, v)
    \/ \E c \in Consumers, k \in Keys : DeleteField(c, k)
    \/ \E c \in Consumers, id \in PluginIds : PushPlugin(c, id)

Spec == Init /\ [][Next]_vars

\* The object the module exported, as the store holds it now.
Config == heap[ConfigAddr].props

\* The object an importer's reference denotes.
Deref(c) == heap[ref[c]].props

---------------------------------------------------------------------------
(* The configuration in the vocabulary of the design's data model.         *)

LiteralKeySet == {LiteralKeys[i] : i \in 1..Len(LiteralKeys)}

StringOf(v) == IF v.t = "string" THEN v.s ELSE "<not a string>"

\* The FormatPreferences record an object denotes.
FormatPreferences(props) ==
    [statementTerminator |-> props.semi = Bool(TRUE),
     quoteStyle |-> IF props.singleQuote = Bool(FALSE) THEN "double"
                    ELSE IF props.singleQuote = Bool(TRUE) THEN "single"
                    ELSE "<not a boolean>",
     trailingComma |-> StringOf(props.trailingComma),
     indentWidth |-> IF props.tabWidth.t = "number" THEN props.tabWidth.n ELSE 0 - 1,
     maxLineWidth |-> IF props.printWidth.t = "number" THEN props.printWidth.n ELSE 0 - 1,
     arrowParensPolicy |-> StringOf(props.arrowParens),
     lineEnding |-> StringOf(props.endOfLine),
     plugins |-> IF props.plugins.t = "array" THEN props.plugins.a
                 ELSE <<"<not an array>">>]

\* The object has exactly the eight properties of the literal.
Total(props) ==
    /\ \A k \in LiteralKeySet : props[k] # Absent
    /\ \A k \in Keys \ LiteralKeySet : props[k] = Absent

IsPosInt(v) == v.t = "number" /\ v.n > 0

WidthKeys == {"tabWidth", "printWidth"}

WidthsPositive(props) == \A k \in WidthKeys : IsPosInt(props[k])

---------------------------------------------------------------------------
(* Properties.                                                             *)

\* C1: while no importer has written to the object, what every importer
\* holds after loading is exactly the record statementTerminator = true,
\* quoteStyle = double, trailingComma = es5, indentWidth = 2,
\* maxLineWidth = 100, arrowParensPolicy = always, lineEnding = lf,
\* plugins = empty sequence.
C1_LoadReturnsLiteral ==
    \A c \in Consumers :
        (ref[c] # NoRef /\ writes = 0) =>
            FormatPreferences(Deref(c)) =
                [statementTerminator |-> TRUE, quoteStyle |-> "double",
                 trailingComma |-> "es5", indentWidth |-> 2,
                 maxLineWidth |-> 100, arrowParensPolicy |-> "always",
                 lineEnding |-> "lf", plugins |-> <<>>]

C1_Witness ==
    /\ lastOp.op = "load"
    /\ writes = 0
    /\ \E c \in Consumers : ref[c] # NoRef /\ Total(Deref(c))

\* C2: whatever the number and order of loads and whatever environment each
\* ran under, the values any two loads returned are field-for-field equal.
C2_LoadsAgree ==
    \A c, d \in Consumers :
        (ref[c] # NoRef /\ ref[d] # NoRef) => heap[ref[c]] = heap[ref[d]]

C2_Witness ==
    /\ lastOp = Op("load", "ok", "CI", "")
    /\ writes > 0
    /\ Config # Literal
    /\ \A c \in Consumers : ref[c] # NoRef

\* C3 as stated: in every reachable state every field of the configuration
\* equals its initial literal value.
C3_NeverMutated == Config = Literal

\* C3 as amended: as long as no importer has written to the object (loads
\* and reads only), every field equals its initial literal value.
C3_UnwrittenIsLiteral == writes = 0 => Config = Literal

C3_Witness ==
    /\ writes = 0
    /\ lastOp.op = "read"
    /\ \A c \in Consumers : obs[c].has /\ obs[c].props = Literal

\* C4: plugins is the empty sequence after module evaluation, and a push
\* onto plugins leaves every other property of the object unchanged.
C4_PushFrame ==
    /\ Config.plugins = Arr(<<>>)
    /\ [][lastOp'.op = "push" =>
            \A k \in Keys \ {"plugins"} : Config'[k] = Config[k]]_vars

C4_Witness ==
    /\ lastOp = Op("push", "ok", "", "plugins")
    /\ Len(Config.plugins.a) = 1
    /\ \A k \in Keys \ {"plugins"} : Config[k] = Literal[k]

\* C5 as stated: in every reachable state the object has exactly the eight
\* properties of the literal, all present.
C5_AlwaysTotal == Total(Config)

\* C5 as amended: the object has exactly the eight properties after module
\* evaluation, and every step other than an importer's assignment or delete
\* keeps it so.
C5_TotalUntilReshaped ==
    /\ Total(Config)
    /\ [][(Total(Config) /\ lastOp'.op \notin {"set", "delete"})
            => Total(Config')]_vars

C5_Witness ==
    /\ lastOp.op = "push"
    /\ writes > 0
    /\ Total(Config)
    /\ \E c \in Consumers : ref[c] # NoRef /\ Total(Deref(c))

\* C6: a load never ends in an error, whatever was done to the object before.
C6_LoadInfallible == lastOp.op = "load" => lastOp.outcome = "ok"

C6_Witness ==
    /\ lastOp.op = "load"
    /\ lastOp.outcome = "ok"
    /\ writes > 0
    /\ ~WidthsPositive(Config)

\* C7: a load changes nothing but the loading importer's own binding: the
\* object store, every importer's readings and the write count stay as
\* they were, and no binding changes to anything but the exported object.
C7_LoadNoSideEffects ==
    [][lastOp'.op = "load" =>
         /\ heap' = heap
         /\ obs' = obs
         /\ writes' = writes
         /\ \A c \in Consumers : ref'[c] \in {ref[c], ConfigAddr}]_vars

C7_Witness ==
    /\ lastOp.op = "load"
    /\ writes > 0
    /\ \E c \in Consumers : obs[c].has /\ obs[c].props # Config

C10_WidthsAlwaysPositive == WidthsPositive(Config)

\* C10 as amended: tabWidth and printWidth are strictly positive integers
\* after module evaluation, and every step other than an importer's
\* assignment to or delete of one of the two keeps them so.
C10_WidthsPositiveUntilAssigned ==
    /\ WidthsPositive(Config)
    /\ [][(WidthsPositive(Config)
           /\ ~(lastOp'.op \in {"set", "delete"} /\ lastOp'.key \in WidthKeys))
            => WidthsPositive(Config')]_vars

C10_Witness ==
    /\ lastOp.op \in {"set", "delete"}
    /\ lastOp.key \notin WidthKeys
    /\ Config # Literal
    /\ WidthsPositive(Config)

---------------------------------------------------------------------------
(* The declared domains of the enumerated fields.                          *)

EnumKeys == {"semi", "singleQuote", "trailingComma", "arrowParens", "endOfLine"}

\* The values the data model allows a property to hold.
Domain(k) ==
    CASE k \in {"semi", "singleQuote"} -> {Bool(TRUE), Bool(FALSE)}
      [] k = "trailingComma" -> {Str("none"), Str("es5"), Str("all")}
      [] k = "arrowParens" -> {Str("always"), Str("avoid")}
      [] k = "endOfLine" -> {Str("lf"), Str("crlf"), Str("cr"), Str("auto")}
      [] OTHER -> {}

InDomain(props) == \A k \in EnumKeys : props[k] \in Domain(k)

\* C11 as stated: in every reachable state each enumerated field holds a
\* value of its declared domain.
C11_AlwaysInDomain == InDomain(Config)

\* C11 as amended: each enumerated field holds a value of its declared
\* domain after module evaluation, and every step other than an importer's
\* assignment to or delete of one of these fields keeps it so.
C11_InDomainUntilAssigned ==
    /\ InDomain(Config)
    /\ [][(InDomain(Config)
           /\ ~(lastOp'.op \in {"set", "delete"} /\ lastOp'.key \in EnumKeys))
            => InDomain(Config')]_vars

C11_Witness ==
    /\ lastOp.op = "set"
    /\ lastOp.key \in WidthKeys
    /\ ~WidthsPositive(Config)
    /\ InDomain(Config)

---------------------------------------------------------------------------
(* Scheduling: an import is synchronous, so while some importer has not   *)
(* got the export yet, an import that was started runs to completion (weak *)
(* fairness on the loads of importers without a binding).  Nothing is      *)
(* assumed of reads and writes.                                            *)

FairSpec ==
    /\ Spec
    /\ WF_vars(\E c \in Consumers, env \in Envs : ref[c] = NoRef /\ Load(c, env))

\* C12: a load is never disabled, one load step binds the exported object
\* to the importer that loads, and so every importer's load has returned
\* the object eventually, whatever the other importers do.
C12_LoadReturns ==
    /\ [](\A c \in Consumers, env \in Envs :
             ENABLED (Load(c, env) /\ ref'[c] = ConfigAddr))
    /\ <>(\A c \in Consumers : ref[c] = ConfigAddr)

C12_Witness ==
    /\ lastOp = Op("load", "ok", "", "")
    /\ writes = MaxWrites
    /\ \E c \in Consumers : obs[c].has
    /\ \A c \in Consumers : ref[c] = ConfigAddr

---------------------------------------------------------------------------
\* C13: every importer that holds the export holds the one object bound to
\* `config`; an importer's assignment, delete or push is written into that
\* object; and every reading taken afterwards, by any importer, is of that
\* object as the writes so far have left it.
C13_SharedMutable ==
    /\ [](\A c \in Consumers : ref[c] \in {NoRef, ConfigAddr})
    /\ [][(lastOp'.op = "set") =>
            \E v \in SetValues :
                Config' = [Config EXCEPT ![lastOp'.key] = v]]_vars
    /\ [][(lastOp'.op = "delete") =>
            Config' = [Config EXCEPT ![lastOp'.key] = Absent]]_vars
    /\ [][(lastOp' = Op("push", "ok", "", "plugins")) =>
            \E id \in PluginIds :
                Config'.plugins = Arr(Append(Config.plugins.a, id))]_vars
    /\ [][(lastOp'.op = "read") =>
            \A c \in Consumers :
                obs'[c] # obs[c] => obs'[c] = [has |-> TRUE, props |-> Config']]_vars

C13_Witness ==
    /\ lastOp.op = "read"
    /\ writes > 0
    /\ Config.plugins # Literal.plugins
    /\ \A c \in Consumers : obs[c] = [has |-> TRUE, props |-> Config]

====
